---------------------------- MODULE Spec2Model ----------------------------
(***************************************************************************)
(* Model of the code embedding service, src/embeddings/main.py.            *)
(*                                                                         *)
(* The state is the module's globals (the configuration read from the      *)
(* environment, and tokenizer / model / device set by lifespan) together   *)
(* with the position and locals of the one POST /embed request being       *)
(* handled.  The body of embed() holds no await, so the event loop runs it *)
(* from its first line to its response without running anything else; the *)
(* same holds for lifespan() up to its yield.  The request is therefore    *)
(* split only where the outcome of an external call (tokenizer + model) is *)
(* decided.                                                                *)
(*                                                                         *)
(* Strings that the code inspects (texts, the task label) are sequences of *)
(* one-character strings.  An optional string (Optional[str]) is the empty *)
(* set for None and {s} for the string s.                                  *)
(***************************************************************************)
EXTENDS Integers, Sequences, FiniteSets, TLC

(* ------------------------------ bounds -------------------------------- *)
\* Longest texts list a client sends.
MaxTexts == 4
\* Largest BATCH_SIZE the environment configures.
MaxBatchSize == 2
\* The MAX_TEXTS_PER_REQUEST the environment configures.
MaxLimit == 3

(* --------------------------- input universe --------------------------- *)
WS == " "
Whitespace == {WS}
\* The texts a client may send: whitespace only, and two texts with content,
\* one of them with whitespace around it.
Texts == {<<WS>>, <<"a">>, <<WS, "b", WS>>}
Tasks == {<<"d">>, <<"q">>}
None == {}
Some(s) == {s}
HeaderValues == {None, Some("k1"), Some("k2")}
SecretValues == {None, Some(""), Some("k1")}
TextLists == UNION {[1..n -> Texts] : n \in 0..MaxTexts}

MODEL_NAME == "nomic-ai/nomic-embed-code"

VARIABLES
    BATCH_SIZE,             \* int(os.getenv("BATCH_SIZE", "4"))
    MAX_TEXTS_PER_REQUEST,  \* int(os.getenv("MAX_TEXTS_PER_REQUEST", "1000"))
    SHARED_SECRET,          \* os.getenv("EMBEDDING_API_SECRET")
    tokenizer,              \* global: None or {"tokenizer"}
    model,                  \* global: None or {"model"}
    device,                 \* global: None, {"cuda"} or {"cpu"}
    lifecycle,              \* position of lifespan()
    pc,                     \* position of the request being handled
    x_api_key,              \* verify_api_key's argument: the X-Api-Key header
    req,                    \* the request body: [texts, task]
    i,                      \* embed: offset of the current batch
    j,                      \* embed: index within the batch in the fallback
    all_embeddings,         \* embed: one entry per finished batch
    batch_embeddings,       \* embed: vectors of the fallback so far
    response,               \* what the caller receives
    calls,                  \* history: encoder invocations of this request
    cache_log               \* history: torch.cuda.empty_cache() calls of this request

vars == <<BATCH_SIZE, MAX_TEXTS_PER_REQUEST, SHARED_SECRET, tokenizer, model,
          device, lifecycle, pc, x_api_key, req, i, j, all_embeddings,
          batch_embeddings, response, calls, cache_log>>

config == <<BATCH_SIZE, MAX_TEXTS_PER_REQUEST, SHARED_SECRET>>
globals == <<tokenizer, model, device, lifecycle>>
locals == <<i, j, all_embeddings, batch_embeddings>>

(* ------------------------------ helpers ------------------------------- *)
Min(a, b) == IF a < b THEN a ELSE b
Last(s) == s[Len(s)]

\* Python truthiness of an Optional[str]: None and "" are falsy.
Truthy(opt) == opt # None /\ opt # Some("")

RECURSIVE lstrip(_)
lstrip(text) ==
    IF text # <<>> /\ Head(text) \in Whitespace THEN lstrip(Tail(text)) ELSE text

RECURSIVE rstrip(_)
rstrip(text) ==
    IF text # <<>> /\ Last(text) \in Whitespace
    THEN rstrip(SubSeq(text, 1, Len(text) - 1))
    ELSE text

\* Mutant of strip: nothing is stripped.
strip_nothing(text) == text

\* str.strip()
strip(text) == rstrip(lstrip(text))

RECURSIVE Flatten(_)
\* torch.cat(list_of_tensors, dim=0): the rows of all tensors, in order.
Flatten(tensors) ==
    IF tensors = <<>> THEN <<>> ELSE Head(tensors) \o Flatten(Tail(tensors))

NoResponse == [status |-> 0]
HTTPException(status_code, msg, index) ==
    [status |-> status_code, detail |-> [msg |-> msg, index |-> index]]

NoError == [status |-> 0]
NoIndex == 0 - 1

(* ---------------------------- authentication -------------------------- *)
\* Mutant of verify_api_key: the missing-header case is not told apart.
verify_api_key_no_401(key) ==
    IF ~Truthy(SHARED_SECRET) THEN NoError
    ELSE IF key # SHARED_SECRET
         THEN HTTPException(403, "Invalid API Key", NoIndex)
    ELSE NoError

\* verify_api_key: the HTTPException it raises, or NoError when it returns.
verify_api_key(key) ==
    IF ~Truthy(SHARED_SECRET) THEN NoError
    ELSE IF key = None
         THEN HTTPException(401, "X-Api-Key header is required", NoIndex)
    ELSE IF key # SHARED_SECRET
         THEN HTTPException(403, "Invalid API Key", NoIndex)
    ELSE NoError

(* ------------------------------ validation ---------------------------- *)
\* The positions (1-based) of the texts that are empty once stripped.
BlankPositions(texts) == {k \in 1..Len(texts) : Len(strip(texts[k])) = 0}
FirstOf(S) == CHOOSE k \in S : \A m \in S : k <= m

\* validate_texts: the HTTPException it raises, or NoError when it returns.
\* The request model (List[str]) leaves no element that is not a string, so
\* the isinstance branch never raises.  Python indexes from 0.
validate_texts(texts) ==
    IF texts = <<>>
    THEN HTTPException(400, "texts list cannot be empty", NoIndex)
    ELSE IF Len(texts) > MAX_TEXTS_PER_REQUEST
    THEN HTTPException(400, "Too many texts. Maximum allowed", MAX_TEXTS_PER_REQUEST)
    ELSE IF BlankPositions(texts) # {}
    THEN HTTPException(400, "Text is empty or whitespace only",
                       FirstOf(BlankPositions(texts)) - 1)
    ELSE NoError

(* ------------------------------- encoder ------------------------------ *)
\* The external encoder is a black box from a string to a vector: tokenizer,
\* forward pass, mean_pooling and F.normalize.  A vector is identified by the
\* string it was computed from.
Embedding(s) == [of |-> s]
\* A row the encoder returned beyond the strings it was given.
Stray == [of |-> <<"?">>]
\* The tensor of n rows an encoder invocation on `inputs` returns; an encoder
\* that honours its interface returns n = Len(inputs) rows.
EncoderOutput(inputs, n) ==
    [k \in 1..n |-> IF k <= Len(inputs) THEN Embedding(inputs[k]) ELSE Stray]

\* Mutant of prefixed: the separator without its space.
prefixed_no_space(task, text) == task \o <<":">> \o text

\* f"{req.task}: {text}"
prefixed(task, text) == task \o <<":", " ">> \o text

\* Mutant of batch_texts: the slice ends one element early.
batch_texts_short(texts, at) ==
    SubSeq(texts, at + 1, Min(at + BATCH_SIZE - 1, Len(texts)))

\* req.texts[i:i + BATCH_SIZE]
batch_texts(texts, at) == SubSeq(texts, at + 1, Min(at + BATCH_SIZE, Len(texts)))

\* [f"{req.task}: {text}" for text in batch_texts]
prefixed_texts(task, batch) == [k \in 1..Len(batch) |-> prefixed(task, batch[k])]

\* Mutant of range_next: the loop advances by one text, not by one batch.
range_next_by_one(at) == at + 1

\* range(0, len(req.texts), BATCH_SIZE): the offset after `at`.
range_next(at) == at + BATCH_SIZE

\* Mutant of failed_position: the index within the batch is reported.
failed_position_in_batch(at, k) == k

\* The input index reported by a failed single-item encode: i + j.
failed_position(at, k) == at + k

\* What the encoder may raise: torch.cuda.OutOfMemoryError, or another error.
Exceptions == {"OutOfMemoryError", "RuntimeError"}

\* Mutant of is_out_of_memory: the fallback catches every exception.
is_any_exception(exc) == TRUE

\* except torch.cuda.OutOfMemoryError
is_out_of_memory(exc) == exc = "OutOfMemoryError"

\* Mutant of not_loaded: the readiness check is missing.
not_loaded_unchecked == FALSE

\* model is None or tokenizer is None
not_loaded == model = None \/ tokenizer = None

\* if device and device.type == 'cuda': torch.cuda.empty_cache()
empty_cache(log, tag) == IF device = Some("cuda") THEN Append(log, tag) ELSE log

\* GET /health
health_check ==
    [status |-> IF model # None THEN "healthy" ELSE "loading",
     model_loaded |-> model # None,
     device |-> IF device # None THEN device ELSE Some("unknown"),
     batch_size |-> BATCH_SIZE]

(* ------------------------------- Init --------------------------------- *)
NoRequest == [texts |-> <<>>, task |-> <<>>]

Init ==
    /\ BATCH_SIZE \in 1..MaxBatchSize
    /\ MAX_TEXTS_PER_REQUEST = MaxLimit
    /\ SHARED_SECRET \in SecretValues
    /\ tokenizer = None
    /\ model = None
    /\ device = None
    /\ lifecycle = "start"
    /\ pc = "idle"
    /\ x_api_key = None
    /\ req = NoRequest
    /\ i = 0
    /\ j = 0
    /\ all_embeddings = <<>>
    /\ batch_embeddings = <<>>
    /\ response = NoResponse
    /\ calls = <<>>
    /\ cache_log = <<>>

(* ------------------------------ lifespan ------------------------------ *)
\* lines 34-39: pick the device.
SelectDevice(cuda_available) ==
    /\ lifecycle = "start"
    /\ pc = "idle"
    /\ device' = IF cuda_available THEN Some("cuda") ELSE Some("cpu")
    /\ lifecycle' = "device"
    /\ UNCHANGED <<config, tokenizer, model, pc, x_api_key, req, locals,
                   response, calls, cache_log>>

\* line 43
LoadTokenizer ==
    /\ lifecycle = "device"
    /\ tokenizer' = Some("tokenizer")
    /\ lifecycle' = "tokenizer"
    /\ UNCHANGED <<config, model, device, pc, x_api_key, req, locals,
                   response, calls, cache_log>>

\* lines 44-56: the model is loaded, moved to the device and put in eval
\* mode, and lifespan yields: the application serves requests.
LoadModel ==
    /\ lifecycle = "tokenizer"
    /\ model' = Some("model")
    /\ lifecycle' = "ready"
    /\ UNCHANGED <<config, tokenizer, device, pc, x_api_key, req, locals,
                   response, calls, cache_log>>

\* lines 51-53: from_pretrained raised; the exception is logged and raised
\* again, and the application never serves.
LoadFailed ==
    /\ lifecycle \in {"device", "tokenizer"}
    /\ lifecycle' = "failed"
    /\ UNCHANGED <<config, tokenizer, model, device, pc, x_api_key, req,
                   locals, response, calls, cache_log>>

\* lines 57-60: shutdown, between requests.
Shutdown ==
    /\ lifecycle = "ready"
    /\ pc = "idle"
    /\ lifecycle' = "stopped"
    /\ UNCHANGED <<config, tokenizer, model, device, pc, x_api_key, req,
                   locals, response, calls, cache_log>>

(* ----------------------------- POST /embed ---------------------------- *)
\* A request arrives and its dependency verify_api_key runs, before embed's
\* body.  Requests are dispatched once lifespan has yielded, or with lifespan
\* never run (a server that does not speak the lifespan protocol): embed's
\* own check at line 148 covers the second case.
Receive(texts, task, key) ==
    /\ pc = "idle"
    /\ lifecycle \in {"start", "ready"}
    /\ req' = [texts |-> texts, task |-> task]
    /\ x_api_key' = key
    /\ LET err == verify_api_key(key) IN
        IF err # NoError
        THEN /\ response' = err
             /\ pc' = "done"
        ELSE /\ response' = response
             /\ pc' = "handler"
    /\ UNCHANGED <<config, globals, locals, calls, cache_log>>

\* lines 148-157: the readiness check (before the try, so outside its
\* finally), then validate_texts inside the try.  embed receives the body
\* only: the header was the argument of verify_api_key.
EmbedEntry ==
    /\ pc = "handler"
    /\ IF not_loaded
       THEN /\ response' = HTTPException(503, "Model is not loaded or is warming up", NoIndex)
            /\ pc' = "done"
            /\ UNCHANGED <<locals, cache_log>>
       ELSE LET err == validate_texts(req.texts) IN
            IF err # NoError
            THEN /\ response' = err
                 /\ pc' = "done"
                 /\ cache_log' = empty_cache(cache_log, "finally")
                 /\ UNCHANGED locals
            ELSE /\ all_embeddings' = <<>>
                 /\ i' = 0
                 /\ pc' = "loop"
                 /\ UNCHANGED <<j, batch_embeddings, response, cache_log>>
    /\ x_api_key' = None
    /\ UNCHANGED <<config, globals, req, calls>>

InvocationOf(kind, at, inputs, outcome) ==
    [kind |-> kind, at |-> at, inputs |-> inputs, outcome |-> outcome]

\* lines 159-184: the whole batch is encoded; the encoder returns n rows.
BatchEncoded(n) ==
    /\ pc = "loop"
    /\ i < Len(req.texts)
    /\ LET inputs == prefixed_texts(req.task, batch_texts(req.texts, i)) IN
        /\ all_embeddings' = Append(all_embeddings, EncoderOutput(inputs, n))
        /\ calls' = Append(calls, InvocationOf("batch", i, inputs, "ok"))
    /\ i' = range_next(i)
    /\ UNCHANGED <<config, globals, pc, x_api_key, req, j, batch_embeddings,
                   response, cache_log>>

\* lines 186-195 and 253-264: the whole-batch encode raised `exc`.  Out of
\* memory starts the per-item fallback; anything else reaches the outer
\* `except Exception` and the finally.
BatchRaised(exc) ==
    /\ pc = "loop"
    /\ i < Len(req.texts)
    /\ LET inputs == prefixed_texts(req.task, batch_texts(req.texts, i)) IN
        calls' = Append(calls, InvocationOf("batch", i, inputs, exc))
    /\ IF is_out_of_memory(exc)
       THEN /\ cache_log' = empty_cache(cache_log, "fallback")
            /\ batch_embeddings' = <<>>
            /\ j' = 0
            /\ pc' = "fallback"
            /\ UNCHANGED <<i, all_embeddings, response>>
       ELSE /\ response' = HTTPException(500, "Internal server error during embedding generation", NoIndex)
            /\ cache_log' = empty_cache(cache_log, "finally")
            /\ pc' = "done"
            /\ UNCHANGED locals
    /\ UNCHANGED <<config, globals, x_api_key, req>>

\* lines 196-220: one text of the batch is encoded alone; n rows come back.
SingleEncoded(n) ==
    /\ pc = "fallback"
    /\ j < Len(batch_texts(req.texts, i))
    /\ LET inputs == <<prefixed(req.task, batch_texts(req.texts, i)[j + 1])>> IN
        /\ batch_embeddings' = Append(batch_embeddings, EncoderOutput(inputs, n))
        /\ calls' = Append(calls, InvocationOf("single", i + j, inputs, "ok"))
    /\ cache_log' = empty_cache(cache_log, "item")
    /\ j' = j + 1
    /\ UNCHANGED <<config, globals, pc, x_api_key, req, i, all_embeddings, response>>

\* lines 222-227 and 250-264: the single-item encode raised `exc` (out of
\* memory again, or anything else: `except Exception` takes both).
SingleFailed(exc) ==
    /\ pc = "fallback"
    /\ j < Len(batch_texts(req.texts, i))
    /\ LET inputs == <<prefixed(req.task, batch_texts(req.texts, i)[j + 1])>> IN
        calls' = Append(calls, InvocationOf("single", i + j, inputs, exc))
    /\ response' = HTTPException(500, "Failed to process text at position",
                                 failed_position(i, j))
    /\ cache_log' = empty_cache(cache_log, "finally")
    /\ pc' = "done"
    /\ UNCHANGED <<config, globals, x_api_key, req, locals>>

\* lines 229-233: the fallback's vectors become the batch's entry.
CombineFallback ==
    /\ pc = "fallback"
    /\ j >= Len(batch_texts(req.texts, i))
    /\ all_embeddings' =
         IF batch_embeddings # <<>>
         THEN Append(all_embeddings, Flatten(batch_embeddings))
         ELSE all_embeddings
    /\ batch_embeddings' = <<>>
    /\ j' = 0
    /\ i' = range_next(i)
    /\ pc' = "loop"
    /\ UNCHANGED <<config, globals, x_api_key, req, response, calls, cache_log>>

\* EmbedResponse(embeddings=..., count=len(embeddings_list), model=MODEL_NAME)
EmbedResponse(embeddings_list) ==
    [status |-> 200, embeddings |-> embeddings_list,
     count |-> Len(embeddings_list), model |-> MODEL_NAME]

\* lines 235-248 and 260-264: the loop is over; the response is built.
Respond ==
    /\ pc = "loop"
    /\ i >= Len(req.texts)
    /\ response' = EmbedResponse(Flatten(all_embeddings))
    /\ cache_log' = empty_cache(cache_log, "finally")
    /\ pc' = "done"
    /\ UNCHANGED <<config, globals, x_api_key, req, locals, calls>>

\* The response is sent; the handler's locals are gone.
Complete ==
    /\ pc = "done"
    /\ pc' = "idle"
    /\ x_api_key' = None
    /\ req' = NoRequest
    /\ i' = 0
    /\ j' = 0
    /\ all_embeddings' = <<>>
    /\ batch_embeddings' = <<>>
    /\ response' = NoResponse
    /\ calls' = <<>>
    /\ cache_log' = <<>>
    /\ UNCHANGED <<config, globals>>

(* --------------------------- specifications --------------------------- *)
Lifespan ==
    \/ \E cuda_available \in BOOLEAN : SelectDevice(cuda_available)
    \/ LoadTokenizer
    \/ LoadModel
    \/ LoadFailed
    \/ Shutdown

Arrival ==
    \E texts \in TextLists, task \in Tasks, key \in HeaderValues :
        Receive(texts, task, key)

\* The steps of embed that do not depend on what the encoder returns.
Handling ==
    \/ EmbedEntry
    \/ \E exc \in Exceptions : BatchRaised(exc)
    \/ \E exc \in Exceptions : SingleFailed(exc)
    \/ CombineFallback
    \/ Respond
    \/ Complete

\* The encoder honours its interface: one vector per string it is given.
Encoding ==
    \/ BatchEncoded(Len(batch_texts(req.texts, i)))
    \/ SingleEncoded(1)

\* The encoder returns any number of rows.
AnyEncoding ==
    \/ \E n \in 0..(BATCH_SIZE + 1) : BatchEncoded(n)
    \/ \E n \in 0..2 : SingleEncoded(n)

Next == Lifespan \/ Arrival \/ Handling \/ Encoding

Spec == Init /\ [][Next]_vars

NextAnyEncoder == Lifespan \/ Arrival \/ Handling \/ AnyEncoding

SpecAnyEncoder == Init /\ [][NextAnyEncoder]_vars

TypeOK ==
    /\ BATCH_SIZE \in 1..MaxBatchSize
    /\ MAX_TEXTS_PER_REQUEST = MaxLimit
    /\ SHARED_SECRET \in SecretValues
    /\ lifecycle \in {"start", "device", "tokenizer", "ready", "failed", "stopped"}
    /\ pc \in {"idle", "handler", "loop", "fallback", "done"}
    /\ req.texts \in TextLists
    /\ i \in 0..(MaxTexts + MaxBatchSize)
    /\ j \in 0..MaxBatchSize

(* ------------------------------ properties ---------------------------- *)
\* The request ended in a success response.
Success == pc = "done" /\ response.status = 200
\* The invocations of `kind` in the history, in order.
CallsOf(kind) == SelectSeq(calls, LAMBDA c : c.kind = kind)
Recovered == \E c \in 1..Len(calls) : calls[c].outcome = "OutOfMemoryError"

\* C1: a success response holds exactly one embedding per text of the
\* request, and its count field is the number of embeddings, for every
\* BATCH_SIZE and every pattern of recovered out-of-memory failures.
C1_OneEmbeddingPerText ==
    Success =>
        /\ Len(response.embeddings) = Len(req.texts)
        /\ response.count = Len(response.embeddings)

\* A success over several batches, one of them recovered by the fallback.
C1_Witness ==
    /\ Success
    /\ Recovered
    /\ Len(CallsOf("batch")) >= 2
    /\ Len(req.texts) > BATCH_SIZE
    /\ BATCH_SIZE > 1

\* C2: in a success response the embedding at each position is the
\* encoder's output for the task label, a colon, a space and the text at
\* that position, whichever path encoded it.
C2_EmbeddingOfPrefixedText ==
    Success =>
        /\ DOMAIN response.embeddings = DOMAIN req.texts
        /\ \A k \in DOMAIN req.texts :
              response.embeddings[k] = [of |-> req.task \o <<":", " ">> \o req.texts[k]]

\* A success with different texts, some encoded by a whole-batch invocation
\* and some by the fallback.
C2_Witness ==
    /\ Success
    /\ \E c, d \in 1..Len(calls) :
          /\ calls[c].kind = "batch" /\ calls[c].outcome = "ok"
          /\ calls[d].kind = "single" /\ calls[d].outcome = "ok"
    /\ \E k, m \in DOMAIN req.texts : req.texts[k] # req.texts[m]

\* The texts encoded so far: those of the successful whole-batch invocations
\* and of the successful single-item invocations among the first n calls.
RECURSIVE EncodedBefore(_)
EncodedBefore(n) ==
    IF n = 0 THEN 0
    ELSE EncodedBefore(n - 1)
         + (IF calls[n].outcome = "ok" THEN Len(calls[n].inputs) ELSE 0)

\* The whole-batch invocation that precedes call c most closely (0: none).
BatchBefore(c) ==
    IF \E b \in 1..(c - 1) : calls[b].kind = "batch"
    THEN CHOOSE b \in 1..(c - 1) :
            /\ calls[b].kind = "batch"
            /\ \A m \in (b + 1)..(c - 1) : calls[m].kind # "batch"
    ELSE 0

\* Call c is a single-item invocation of the fallback of whole-batch call b.
InFallbackOf(c, b) ==
    /\ b > 0
    /\ calls[b].outcome = "OutOfMemoryError"
    /\ calls[c].at >= calls[b].at
    /\ calls[c].at < calls[b].at + Len(calls[b].inputs)

\* C3: a batch is processed text by text exactly when its whole-batch encode
\* ran out of memory.  Every single-item invocation belongs to the fallback
\* of the whole-batch invocation before it, which ran out of memory; a batch
\* that ran out of memory is followed by single-item invocations of its own
\* texts, in order, and by nothing else until they are done; a request that
\* ended with every single-item invocation successful is a success; a
\* whole-batch failure of another kind is the last invocation and ends the
\* request with the generic 500 error.
C3_FallbackIffOutOfMemory ==
    /\ \A c \in 1..Len(calls) :
          calls[c].kind = "single" => InFallbackOf(c, BatchBefore(c))
    /\ \A b \in 1..Len(calls) :
          (calls[b].kind = "batch" /\ calls[b].outcome = "OutOfMemoryError") =>
              /\ pc # "done" \/ Len(calls) > b
              /\ \A k \in 1..Len(calls[b].inputs) :
                    (b + k <= Len(calls)) =>
                        /\ calls[b + k].kind = "single"
                        /\ calls[b + k].at = calls[b].at + k - 1
                        /\ calls[b + k].inputs = <<calls[b].inputs[k]>>
                        /\ (k < Len(calls[b].inputs) /\ pc = "done" /\ b + k = Len(calls))
                               => calls[b + k].outcome # "ok"
    /\ \A b \in 1..Len(calls) :
          (calls[b].kind = "batch" /\ calls[b].outcome = "ok" /\ b < Len(calls)) =>
              calls[b + 1].kind = "batch"
    /\ \A b \in 1..Len(calls) :
          (calls[b].kind = "batch" /\ calls[b].outcome \notin {"ok", "OutOfMemoryError"}) =>
              /\ b = Len(calls)
              /\ pc = "done"
              /\ response.status = 500
              /\ response.detail.index = NoIndex
    /\ (/\ pc = "done"
        /\ calls # <<>>
        /\ \A c \in 1..Len(calls) :
              \/ calls[c].outcome = "ok"
              \/ (calls[c].kind = "batch" /\ calls[c].outcome = "OutOfMemoryError"))
          => response.status = 200

\* A success in which one batch was recovered text by text and another was
\* encoded whole.
C3_Witness ==
    /\ Success
    /\ \E b, c \in 1..Len(calls) :
          /\ calls[b].kind = "batch" /\ calls[b].outcome = "OutOfMemoryError"
          /\ Len(calls[b].inputs) = 2
          /\ calls[c].kind = "batch" /\ calls[c].outcome = "ok"

\* C4: a single-item encode that fails, for whatever reason, is the last
\* invocation of the request; the request ends with a 500 error that carries
\* the absolute index of the text (the number of texts encoded before it),
\* and the response holds no embeddings.
C4_FailedItemAborts ==
    \A c \in 1..Len(calls) :
        (calls[c].kind = "single" /\ calls[c].outcome # "ok") =>
            /\ c = Len(calls)
            /\ pc = "done"
            /\ response.status = 500
            /\ response.detail.index = EncodedBefore(c - 1)
            /\ <<req.task \o <<":", " ">> \o req.texts[response.detail.index + 1]>>
                   = calls[c].inputs
            /\ "embeddings" \notin DOMAIN response

\* A failed single-item encode in the second batch of two texts each: the
\* index within the batch (0) is not the index within the request (2).
C4_Witness ==
    /\ pc = "done"
    /\ calls # <<>>
    /\ Last(calls).kind = "single"
    /\ Last(calls).outcome = "OutOfMemoryError"
    /\ BATCH_SIZE = 2
    /\ i = 2
    /\ response.detail.index = 2

\* A text is blank: nothing but whitespace.
Blank(text) == \A c \in 1..Len(text) : text[c] \in Whitespace
BlankAt(texts) == {k \in 1..Len(texts) : Blank(texts[k])}
\* The texts list breaks one of the input rules.
InvalidTexts ==
    \/ req.texts = <<>>
    \/ Len(req.texts) > MAX_TEXTS_PER_REQUEST
    \/ BlankAt(req.texts) # {}
SecretConfigured == SHARED_SECRET # None /\ SHARED_SECRET # Some("")
\* The request got past verify_api_key.
KeyAccepted == response.status \notin {401, 403}
\* verify_api_key has just run: its argument is at hand.
KeyChecked == pc = "handler" \/ (pc = "done" /\ ~KeyAccepted)
Loaded == model # None /\ tokenizer # None

\* C5 as stated: every request with an invalid texts list fails with 400 and
\* without any encoder invocation.
C5_Original ==
    (pc = "done" /\ InvalidTexts) =>
        /\ response.status = 400
        /\ calls = <<>>

\* C5 as amended: a request with an invalid texts list never invokes the
\* encoder; it fails with 400 once it has passed the API-key check and finds
\* the encoder loaded (the API-key check and the readiness check come first
\* and answer 401, 403 or 503); when the list is non-empty and within the
\* limit, the 400 error names the index of the first blank element.
C5_InvalidInputRejected ==
    /\ (pc # "idle" /\ InvalidTexts) => calls = <<>>
    /\ (pc = "done" /\ InvalidTexts) => response.status \in {400, 401, 403, 503}
    /\ (pc = "done" /\ InvalidTexts /\ KeyAccepted /\ Loaded) =>
          /\ response.status = 400
          /\ (req.texts # <<>> /\ Len(req.texts) <= MAX_TEXTS_PER_REQUEST) =>
                /\ response.detail.index + 1 \in BlankAt(req.texts)
                /\ \A k \in BlankAt(req.texts) : response.detail.index + 1 <= k

\* A 400 for a blank element that is not the first text, with another blank
\* element after it.
C5_Witness ==
    /\ pc = "done"
    /\ response.status = 400
    /\ Len(req.texts) <= MAX_TEXTS_PER_REQUEST
    /\ response.detail.index = 1
    /\ 3 \in BlankAt(req.texts)
    /\ SecretConfigured

\* C6: with a secret configured (set and not empty), a request without the
\* header ends with 401 and one with another value ends with 403, neither
\* with any encoder invocation; a request with the exact secret, or any
\* request when no secret is configured, is not rejected by the check.
C6_ApiKeyCheck ==
    /\ KeyChecked =>
        /\ (SecretConfigured /\ x_api_key = None) =>
              (pc = "done" /\ response.status = 401)
        /\ (SecretConfigured /\ x_api_key # None /\ x_api_key # SHARED_SECRET) =>
              (pc = "done" /\ response.status = 403)
        /\ (~SecretConfigured \/ x_api_key = SHARED_SECRET) =>
              (pc = "handler" /\ response = NoResponse)
    /\ (pc # "idle" /\ ~KeyAccepted) => (pc = "done" /\ calls = <<>>)

\* A request without the header, rejected while the encoder is ready.
C6_Witness ==
    /\ pc = "done"
    /\ response.status = 401
    /\ x_api_key = None
    /\ Loaded
    /\ ~InvalidTexts

\* C7, in every state: the encoder has been invoked only with model and
\* tokenizer loaded; a request that reached embed with the encoder not
\* loaded ended with 503 and no invocation; GET /health reports
\* model_loaded and "healthy" exactly when the encoder is loaded.
C7_State ==
    /\ calls # <<>> => Loaded
    /\ pc \in {"loop", "fallback"} => Loaded
    /\ (pc = "done" /\ KeyAccepted /\ ~Loaded) =>
          (response.status = 503 /\ calls = <<>>)
    /\ health_check.model_loaded = Loaded
    /\ health_check.status = (IF Loaded THEN "healthy" ELSE "loading")

\* C7, in every step: model and tokenizer change only from None to loaded.
C7_Step ==
    /\ model' # model => (model = None /\ model' # None)
    /\ tokenizer' # tokenizer => (tokenizer = None /\ tokenizer' # None)

\* C7: the encoder is invoked only while it is ready, readiness is gained
\* once and never lost, and GET /health reports it.
C7_OnlyWhenReady == [](C7_State) /\ [][C7_Step]_vars

\* A request that passed the API-key check and was answered 503.
C7_Witness ==
    /\ pc = "done"
    /\ response.status = 503
    /\ SecretConfigured
    /\ health_check.status = "loading"

\* C8 as stated: on a CUDA device every finished request has released the
\* cache as its last act.
C8_ReleaseAtRequestEnd ==
    (pc = "done" /\ device = Some("cuda")) =>
        (cache_log # <<>> /\ Last(cache_log) = "finally")

\* C9 as stated: when the rows the encoder returned do not add up to the
\* number of texts, the request ends with a 500 error, never with a success.
C9_LengthMismatchFails ==
    (pc = "done" /\ calls # <<>> /\ Len(Flatten(all_embeddings)) # Len(req.texts)) =>
        response.status = 500

\* The number of batches of n texts, b texts to a batch.
CeilDiv(n, b) == CHOOSE m \in 0..n : m * b >= n /\ (m = 0 \/ (m - 1) * b < n)
NoFailure == \A c \in 1..Len(calls) : calls[c].outcome = "ok"
\* What is left of the request: every step of embed lowers it.
Remaining ==
    LET n == Len(req.texts)
        r == IF i < n THEN n - i ELSE 0
        b == Min(BATCH_SIZE, r)
    IN  CASE pc = "handler" -> 3 * n + 2
          [] pc = "loop" -> 3 * r + 1
          [] pc = "fallback" -> 3 * r - 2 * b - j + 2
          [] OTHER -> 0

\* C10, in every state: the whole-batch invocations are those of offsets 0,
\* BATCH_SIZE, 2 * BATCH_SIZE, ... in that order, each over the texts from
\* its offset up to the next; the invocations follow the input order; no
\* text has two single-item invocations; there are at most ceil(n /
\* BATCH_SIZE) whole-batch and n single-item invocations, and exactly ceil(n
\* / BATCH_SIZE) invocations in a finished request without a failure; a
\* request under way can take a step.
C10_State ==
    LET n == Len(req.texts)
        batches == CallsOf("batch")
        singles == CallsOf("single")
    IN  /\ \A k \in 1..Len(batches) :
              /\ batches[k].at = (k - 1) * BATCH_SIZE
              /\ Len(batches[k].inputs) = Min(BATCH_SIZE, n - batches[k].at)
        /\ \A c, d \in 1..Len(calls) : c < d => calls[c].at <= calls[d].at
        /\ \A c, d \in 1..Len(singles) : c # d => singles[c].at # singles[d].at
        /\ \A c \in 1..Len(calls) : calls[c].at < n
        /\ Len(batches) <= CeilDiv(n, BATCH_SIZE)
        /\ Len(singles) <= n
        /\ (pc = "done" /\ calls # <<>> /\ NoFailure) =>
              Len(calls) = CeilDiv(n, BATCH_SIZE)
        /\ pc \in {"handler", "loop", "fallback"} => ENABLED (Handling \/ Encoding)

\* C10, in every step of a request under way: less is left after it.
C10_Step == pc \in {"handler", "loop", "fallback"} => Remaining' < Remaining

\* C10: every request ends, after a bounded number of encoder invocations
\* made batch after batch in input order.
C10_BoundedSequential == [](C10_State) /\ [][C10_Step]_vars

\* A finished request that used every invocation it may: each batch once as
\* a whole and each text once alone.
C10_Witness ==
    /\ Success
    /\ Len(req.texts) > BATCH_SIZE
    /\ BATCH_SIZE > 1
    /\ Len(CallsOf("batch")) = CeilDiv(Len(req.texts), BATCH_SIZE)
    /\ Len(CallsOf("single")) = Len(req.texts)

=============================================================================
